---- MODULE Spec2Model ----
(***************************************************************************)
(* The networking core of the kay actor system (src/src/networking.rs),    *)
(* server and browser backends: a fixed network of machines, each owning   *)
(* one Networking value.  Byte buffers are sequences of octets, a          *)
(* WebSocket is the pair of frame queues between its two endpoints, and    *)
(* every public operation (connect, enqueue, finish_turn,                  *)
(* send_and_receive) is one action, except that connect suspends where the *)
(* code blocks: in the client handshake of a dial, which ends only when    *)
(* the dialled machine accepts, and in the read of a browser's first       *)
(* message.  The message listener of a browser connection and the failure  *)
(* of a socket are actions of their own.                                   *)
(***************************************************************************)
EXTENDS Integers, Sequences, FiniteSets, TLC

(***************************************************************************)
(* Bounds of the model.                                                    *)
(***************************************************************************)
\* finish_turn and enqueue calls of all machines together in Spec
MaxAppends == 3
\* unread frames on a socket at which its owner stops calling send_and_receive
MaxFramesInFlight == 2

(***************************************************************************)
(* Constructor arguments of Networking::new and constants of the code.     *)
(***************************************************************************)
batch_message_bytes == 24
acceptable_turn_distance == 1
turn_sleep_distance_ratio == 2
\* size_of::<ShortTypeId>(): the type id is written with write_u16
SizeOfShortTypeId == 2
\* size_of::<u32>()
SizeOfU32 == 4
\* the number of turn markers after which dispatch_message asks to wait
StallTurns == 10
\* the recipient machine id that enqueue expands to every slot
broadcast_machine_id == 255

VARIABLES
    network,              \* network.len(): the number of peer addresses
    backend,              \* [machine -> "server" | "browser"]: the feature it is built with
    overflow_checks,      \* the build panics on usize overflow (debug) or wraps
    n_turns,              \* [machine -> Networking.n_turns]
    network_connections,  \* [machine -> [slot -> Option<Connection>]]
    listener,             \* [machine -> pending inbound connections of its TcpListener]
    wire,                 \* [from -> [to -> frames written and not yet read]]
    pc,                   \* [machine -> "idle" | "dialing" | "accepting"]: where connect is blocked
    dial,                 \* [machine -> the dial in progress]
    inboxes,              \* [machine -> raw messages put into its inboxes]
    panicked,             \* [machine -> the process has panicked]
    sent,                 \* history: [from -> [to -> messages appended for that socket]]
    received,             \* history: [machine -> [from -> messages dispatched]]
    enqueues,             \* history: [machine -> the enqueue calls it made]
    returned,             \* [machine -> what its last finish_turn returned]
    failing,              \* [machine -> [slot -> how the slot's socket fails next]]
    closed,               \* [machine -> [slot -> the last closed_reason printed]]
    faults                \* the transport faults that have struck so far

vars == <<network, backend, overflow_checks, n_turns, network_connections, listener, wire,
          pc, dial, inboxes, panicked, sent, received, enqueues, returned,
          failing, closed, faults>>

Machines == 0 .. (network - 1)

(***************************************************************************)
(* Octets.                                                                 *)
(***************************************************************************)
\* write_u16::<LittleEndian>
U16LE(n) == <<n % 256, (n \div 256) % 256>>

\* write_u32::<LittleEndian>(n as u32): the four low octets
U32LE(n) ==
    <<n % 256, (n \div 256) % 256, (n \div 65536) % 256, (n \div 16777216) % 256>>

\* LittleEndian::read_u32(&data[pos..]), pos counted from 0
ReadU32(data, pos) ==
    data[pos + 1] + 256 * data[pos + 2] + 65536 * data[pos + 3]
        + 16777216 * data[pos + 4]

\* &data[from..to], offsets counted from 0
Slice(data, from, to) == SubSeq(data, from + 1, to)

(***************************************************************************)
(* Connection.                                                             *)
(***************************************************************************)
NoConnection == [some |-> FALSE]

\* Connection::new(websocket, batch_message_bytes); websocket names the
\* machine at the other end of the socket
NewConnection(peer) ==
    [some |-> TRUE,
     n_turns |-> 0,
     n_turns_since_own_turn |-> 0,
     websocket |-> peer,
     out_batches |-> << <<>> >>]

\* self.batch_message_bytes - message_size overflows usize
SubtractionOverflows(message_size) == message_size > batch_message_bytes

\* tail.len() < self.batch_message_bytes - message_size.  When the
\* subtraction wraps, the difference is 2^w - (message_size - cap), which
\* no Vec length (at most isize::MAX) reaches.
TailHasRoom(tail_len, message_size) ==
    IF SubtractionOverflows(message_size)
    THEN TRUE
    ELSE tail_len < batch_message_bytes - message_size

\* a variant that writes the message before the batch's earlier messages
EnqueueInBatchFront(connection, message_size, data) ==
    LET batches == connection.out_batches
        tail == batches[Len(batches)]
        chosen == IF TailHasRoom(Len(tail), message_size)
                  THEN batches
                  ELSE Append(batches, <<>>)
        k == Len(chosen)
    IN  [connection EXCEPT
            !.out_batches = [chosen EXCEPT ![k] = U32LE(message_size) \o data \o chosen[k]]]

\* enqueue_in_batch followed by the caller's writes of `data` (message_size
\* octets) into the returned batch
EnqueueInBatch(connection, message_size, data) ==
    LET batches == connection.out_batches
        tail == batches[Len(batches)]
        chosen == IF TailHasRoom(Len(tail), message_size)
                  THEN batches
                  ELSE Append(batches, <<>>)
        k == Len(chosen)
    IN  [connection EXCEPT
            !.out_batches = [chosen EXCEPT ![k] = chosen[k] \o U32LE(message_size) \o data]]

\* a variant that writes the newest batch first
TrySendPendingFramesNewestFirst(connection) ==
    [k \in 1 .. Len(connection.out_batches) |->
        connection.out_batches[Len(connection.out_batches) + 1 - k]]

\* Connection::try_send_pending: every batch, the tail included, is written
\* as one binary frame; a would-block outcome leaves the frame queued in the
\* socket, in order.  Returns the frames written.
TrySendPendingFrames(connection) == connection.out_batches

\* the connection after try_send_pending: one fresh empty batch
TrySendPendingAfter(connection) == [connection EXCEPT !.out_batches = << <<>> >>]

\* the connection after a try_send_pending that returns Err from inside the
\* loop: dropping the drain iterator removes every batch, and the push of a
\* fresh buffer is not reached
TrySendPendingFailed(connection) ==
    [connection EXCEPT !.out_batches = <<>>]

(***************************************************************************)
(* Connection (browser).  The message listener of Connection::new pushes   *)
(* the frames into in_queue once got_machine_id is set; ready_state is the *)
(* state of the browser's WebSocket.                                       *)
(***************************************************************************)
\* Connection::new(websocket, batch_message_bytes) of the browser build
NewBrowserConnection(peer) ==
    [some |-> TRUE,
     n_turns |-> 0,
     n_turns_since_own_turn |-> 0,
     websocket |-> peer,
     out_batches |-> << <<>> >>,
     in_queue |-> <<>>,
     got_machine_id |-> FALSE,
     ready_state |-> "connecting"]

\* a variant that queues the machine id behind the batches
AnnounceLast(connection, machine_id) ==
    [connection EXCEPT !.out_batches = Append(@, <<machine_id>>)]

\* connection.out_batches.insert(0, vec![self.machine_id.0])
AnnounceFirst(connection, machine_id) ==
    [connection EXCEPT !.out_batches = << <<machine_id>> >> \o @]

\* the closure registered with add_event_listener, called with one frame
OnMessageFrame(connection, frame) ==
    IF connection.got_machine_id
    THEN [connection EXCEPT !.in_queue = Append(@, frame)]
    ELSE [connection EXCEPT !.got_machine_id = TRUE]

\* browser try_send_pending: the frames written, none unless the socket is Open
BrowserTrySendPendingFrames(connection) ==
    IF connection.ready_state = "open" THEN connection.out_batches ELSE <<>>

\* the connection after the browser's try_send_pending
BrowserTrySendPendingAfter(connection) ==
    IF connection.ready_state = "open"
    THEN [connection EXCEPT !.out_batches = << <<>> >>]
    ELSE connection

(***************************************************************************)
(* Receiving.  A dispatch state holds what dispatch_batch is lent: the     *)
(* connection's two counters and the inboxes, and records the messages     *)
(* dispatched and whether an index ran out of range (a panic).             *)
(***************************************************************************)
DispatchState(connection, inbox) ==
    [n_turns |-> connection.n_turns,
     n_turns_since_own_turn |-> connection.n_turns_since_own_turn,
     inbox |-> inbox,
     log |-> <<>>,
     panic |-> FALSE]

DispatchMessage(data, st) ==
    IF Len(data) < SizeOfShortTypeId
    THEN [st |-> [st EXCEPT !.panic = TRUE], wants_to_wait |-> FALSE]
    ELSE IF data[1] = 0 /\ data[2] = 0
    THEN IF Len(data) < SizeOfShortTypeId + SizeOfU32
         THEN [st |-> [st EXCEPT !.panic = TRUE], wants_to_wait |-> FALSE]
         ELSE [st |-> [st EXCEPT
                         !.n_turns = ReadU32(data, SizeOfShortTypeId),
                         !.n_turns_since_own_turn = @ + 1,
                         !.log = Append(@, data)],
               wants_to_wait |-> st.n_turns_since_own_turn + 1 >= StallTurns]
    ELSE [st |-> [st EXCEPT !.inbox = Append(@, data), !.log = Append(@, data)],
          wants_to_wait |-> FALSE]

RECURSIVE DispatchBatch(_, _, _, _)
DispatchBatch(data, pos, st, one_wants_to_wait) ==
    IF st.panic \/ ~(pos < Len(data))
    THEN [st |-> st, blocked |-> one_wants_to_wait]
    ELSE IF pos + SizeOfU32 > Len(data)
    THEN [st |-> [st EXCEPT !.panic = TRUE], blocked |-> one_wants_to_wait]
    ELSE LET message_size == ReadU32(data, pos)
             start == pos + SizeOfU32
         IN  IF start + message_size > Len(data)
             THEN [st |-> [st EXCEPT !.panic = TRUE], blocked |-> one_wants_to_wait]
             ELSE LET r == DispatchMessage(Slice(data, start, start + message_size), st)
                  IN  DispatchBatch(data, start + message_size, r.st,
                                    one_wants_to_wait \/ r.wants_to_wait)

\* Connection::try_receive: `frames` are the frames that have arrived; reading
\* past them would block, or fail.  Returns the dispatch state, the frames
\* read, and whether the loop ended because a batch asked to wait.
RECURSIVE TryReceive(_, _, _)
TryReceive(frames, nread, st) ==
    IF nread >= Len(frames)
    THEN [st |-> st, nread |-> nread, stalled |-> FALSE]
    ELSE LET r == DispatchBatch(frames[nread + 1], 0, st, FALSE)
         IN  IF r.blocked \/ r.st.panic
             THEN [st |-> r.st, nread |-> nread + 1, stalled |-> r.blocked]
             ELSE TryReceive(frames, nread + 1, r.st)

\* browser try_receive: every batch of in_queue is drained and dispatched;
\* what dispatch_batch returns is not looked at
RECURSIVE BrowserTryReceive(_, _, _)
BrowserTryReceive(in_queue, nread, st) ==
    IF nread >= Len(in_queue) \/ st.panic
    THEN st
    ELSE CHOOSE out \in
             {BrowserTryReceive(in_queue, nread + 1, r.st) :
                r \in {DispatchBatch(in_queue[nread + 1], 0, st, FALSE)}} : TRUE

(***************************************************************************)
(* Networking::connect (server).                                           *)
(***************************************************************************)
NoTarget == -1

\* a variant that announces the dial loop's machine_id, not self.machine_id
HandshakeMessageOfTarget(self_id, target) == <<target>>

\* the first binary message of a dialer: vec![self.machine_id.0]
HandshakeMessage(self_id, target) == <<self_id>>

\* a variant whose accept waits for the smaller machine ids
WaitsForSmaller(m, conns) ==
    \E machine_id \in DOMAIN conns : machine_id < m /\ ~conns[machine_id].some

\* the guard of the accept: some slot of a larger machine id is empty
WaitsForLarger(m, conns) ==
    \E machine_id \in DOMAIN conns : machine_id > m /\ ~conns[machine_id].some

\* The accept path: one listener.accept(); with a connection pending, the
\* WebSocket handshake and the read of the first binary message, whose first
\* octet names the slot.  Returns the peer table, the listener, the dialers
\* whose handshake this completed, the slots that got a new connection, and
\* whether the slot index was out of range.
AcceptOne(m, conns, pending) ==
    IF WaitsForLarger(m, conns) /\ pending # <<>>
    THEN LET stream == Head(pending)
             peer_machine_id == stream.first[1]
         IN  IF peer_machine_id \in DOMAIN conns
             THEN [conns |-> [conns EXCEPT ![peer_machine_id] = NewConnection(stream.from)],
                   pending |-> Tail(pending),
                   accepted |-> {stream.from},
                   opened |-> {peer_machine_id},
                   panic |-> FALSE]
             ELSE [conns |-> conns, pending |-> Tail(pending),
                   accepted |-> {stream.from}, opened |-> {}, panic |-> TRUE]
    ELSE [conns |-> conns, pending |-> pending, accepted |-> {}, opened |-> {},
          panic |-> FALSE]

\* a variant that dials the larger machine ids
ShouldDialLarger(m, machine_id, conns) == machine_id > m /\ ~conns[machine_id].some

\* a smaller machine id whose slot is empty is dialled
ShouldDial(m, machine_id, conns) == machine_id < m /\ ~conns[machine_id].some

\* the next address the dial loop connects to, from index `from` on
NextDialTarget(m, conns, from) ==
    LET targets == {machine_id \in DOMAIN conns :
                        machine_id >= from /\ ShouldDial(m, machine_id, conns)}
    IN  IF targets = {} THEN NoTarget
        ELSE CHOOSE t \in targets : \A u \in targets : t <= u

(***************************************************************************)
(* Networking::finish_turn.                                                *)
(***************************************************************************)
NoHint == [some |-> FALSE, ms |-> 0]

\* a variant whose comparison admits a peer at exactly the acceptable distance
RECURSIVE ShouldSleepInclusive(_, _, _, _)
ShouldSleepInclusive(own_turns, conns, i, should_sleep) ==
    IF i \notin DOMAIN conns
    THEN should_sleep
    ELSE IF conns[i].some /\ conns[i].n_turns + acceptable_turn_distance <= own_turns
    THEN ShouldSleepInclusive(own_turns, conns, i + 1,
             [some |-> TRUE,
              ms |-> (own_turns - acceptable_turn_distance - conns[i].n_turns)
                        \div turn_sleep_distance_ratio])
    ELSE ShouldSleepInclusive(own_turns, conns, i + 1, should_sleep)

\* the loop over the peer table that computes should_sleep, from slot i on
RECURSIVE ShouldSleep(_, _, _, _)
ShouldSleep(own_turns, conns, i, should_sleep) ==
    IF i \notin DOMAIN conns
    THEN should_sleep
    ELSE IF conns[i].some /\ conns[i].n_turns + acceptable_turn_distance < own_turns
    THEN ShouldSleep(own_turns, conns, i + 1,
             [some |-> TRUE,
              ms |-> (own_turns - acceptable_turn_distance - conns[i].n_turns)
                        \div turn_sleep_distance_ratio])
    ELSE ShouldSleep(own_turns, conns, i + 1, should_sleep)

\* a variant that writes the number of the turn that has just ended
TurnMessageOfEndedTurn(turns) == U16LE(0) \o U32LE(turns - 1)

\* a variant that writes the number of the turn after the one that starts
TurnMessageOfNextTurn(turns) == U16LE(0) \o U32LE(turns + 1)

\* the message that ends a turn: type id 0 and the turn number as u32
TurnMessage(turns) == U16LE(0) \o U32LE(turns)

\* the peer table after the second loop of finish_turn
WriteTurnEnd(conns, turns) ==
    [i \in DOMAIN conns |->
        IF conns[i].some
        THEN [EnqueueInBatch(conns[i], SizeOfShortTypeId + SizeOfU32, TurnMessage(turns))
                 EXCEPT !.n_turns_since_own_turn = 0]
        ELSE conns[i]]

(***************************************************************************)
(* Networking::enqueue.  A packet is its recipient machine, its compact    *)
(* size and its content; the compact encoding is packet_size octets that   *)
(* the caller's packet determines.                                         *)
(***************************************************************************)
CompactBytes(packet) == [i \in 1 .. packet.packet_size |-> packet.fill]

PacketMessage(message_type_id, packet) == U16LE(message_type_id) \o CompactBytes(packet)

\* a variant that expands every recipient to all slots
RecipientsAlways(m, conns, machine_id) == DOMAIN conns

\* a variant without the broadcast expansion
RecipientsNever(m, conns, machine_id) == {machine_id}

Recipients(m, conns, machine_id) ==
    IF machine_id = broadcast_machine_id
    THEN DOMAIN conns
    ELSE {machine_id}

EnqueueAll(m, conns, message_type_id, packet) ==
    LET total_size == SizeOfShortTypeId + packet.packet_size
        recipients == Recipients(m, conns, packet.recipient_machine)
    IN  [i \in DOMAIN conns |->
            IF i \in recipients /\ conns[i].some
            THEN EnqueueInBatch(conns[i], total_size, PacketMessage(message_type_id, packet))
            ELSE conns[i]]
(***************************************************************************)
(* Networking::send_and_receive, after its call of connect: the loop over  *)
(* the peer table.  S holds the peer table of m, the wires, the inboxes of *)
(* m and the history of what m dispatched; arrived[p] is the number of     *)
(* frames from p that the socket can deliver before it would block.        *)
(***************************************************************************)
MinOf(a, b) == IF a < b THEN a ELSE b

NoFailure == "none"

\* a variant that drops every connection of the machine on an error
CloseConnectionAll(m, i, S, how) ==
    [S EXCEPT
        !.conns = [k \in DOMAIN S.conns |-> NoConnection],
        !.closed[m][i] = how,
        !.failing[m][i] = NoFailure]

\* a variant that reports the error and leaves the connection in its slot
CloseConnectionKept(m, i, S, how) ==
    [S EXCEPT
        !.closed[m][i] = how,
        !.failing[m][i] = NoFailure]

\* `*maybe_connection = None` after try_send_pending or try_receive of slot
\* i returned Err: the reason is printed, the connection and with it the
\* socket is dropped, what the socket still held for m is gone, and the
\* peer's end of the socket will read that it was closed
CloseConnection(m, i, S, how) ==
    LET peer == S.conns[i].websocket
        peer_holds == /\ peer # m
                      /\ network_connections[peer][m].some
                      /\ network_connections[peer][m].websocket = m
    IN  [S EXCEPT
            !.conns[i] = NoConnection,
            !.wire[peer][m] = <<>>,
            !.closed[m][i] = how,
            !.failing[m][i] = NoFailure,
            !.failing[peer][m] = IF peer_holds /\ @ = NoFailure THEN "receive" ELSE @]

\* one round of the loop: try_send_pending and try_receive of slot i, which
\* holds a connection, and what follows from their result
SendReceiveSlot(m, i, S, arrived) ==
    IF S.failing[m][i] = "send"
    THEN CloseConnection(m, i, [S EXCEPT !.conns[i] = TrySendPendingFailed(@)], "send")
    ELSE LET connection == S.conns[i]
             peer == connection.websocket
             wire1 == [S.wire EXCEPT ![m][peer] = @ \o TrySendPendingFrames(connection)]
             flushed == TrySendPendingAfter(connection)
             incoming == wire1[peer][m]
             readable == SubSeq(incoming, 1, MinOf(arrived[peer], Len(incoming)))
         IN  CHOOSE S2 \in
                 {LET S1 == [S EXCEPT
                               !.conns[i] = [flushed EXCEPT
                                   !.n_turns = r.st.n_turns,
                                   !.n_turns_since_own_turn = r.st.n_turns_since_own_turn],
                               !.wire = [wire1 EXCEPT
                                   ![peer][m] = SubSeq(incoming, r.nread + 1, Len(incoming))],
                               !.inbox = r.st.inbox,
                               !.received[peer] = @ \o r.st.log,
                               !.panic = r.st.panic]
                  IN  IF S.failing[m][i] = "receive" /\ ~r.stalled /\ ~r.st.panic
                      THEN CloseConnection(m, i, S1, "receive")
                      ELSE S1 :
                    r \in {TryReceive(readable, 0, DispatchState(flushed, S.inbox))}} : TRUE

RECURSIVE SendReceiveLoop(_, _, _, _)
SendReceiveLoop(m, i, S, arrived) ==
    IF i \notin DOMAIN S.conns \/ S.panic
    THEN S
    ELSE IF ~S.conns[i].some
    THEN SendReceiveLoop(m, i + 1, S, arrived)
    ELSE CHOOSE S3 \in {SendReceiveLoop(m, i + 1, S2, arrived) :
                            S2 \in {SendReceiveSlot(m, i, S, arrived)}} : TRUE

RECURSIVE LongestWireFrom(_, _)
LongestWireFrom(m, p) ==
    IF p \notin Machines THEN 0
    ELSE LET rest == LongestWireFrom(m, p + 1)
         IN  IF Len(wire[p][m]) > rest THEN Len(wire[p][m]) ELSE rest

LongestWire(m) == LongestWireFrom(m, 0)

\* the choices of `arrived` for a peer table: nothing for a machine no live
\* connection leads to
ArrivedChoices(m, conns) ==
    {a \in [Machines -> 0 .. LongestWire(m)] :
        \A p \in Machines :
            a[p] <= (IF \E i \in DOMAIN conns : conns[i].some /\ conns[i].websocket = p
                     THEN Len(wire[p][m]) ELSE 0)}

(***************************************************************************)
(* Actions.                                                                *)
(***************************************************************************)
NoDial == [target |-> NoTarget, op |-> "none", accepted |-> FALSE]

Idle(m) == pc[m] = "idle" /\ ~panicked[m]

\* connect from the dial loop's index `from` on, after the accept path left
\* `acc`; the call ends, or blocks in the handshake of the next dial.  When
\* it ends inside send_and_receive the loop over the peer table follows.
ConnectFromWire(m, acc, from, op, arrived, wire0) ==
    LET t == NextDialTarget(m, acc.conns, from)
        dial1 == [j \in Machines |->
                    IF j \in acc.accepted THEN [dial[j] EXCEPT !.accepted = TRUE] ELSE dial[j]]
        listener1 == [listener EXCEPT ![m] = acc.pending]
        \* an accepted socket is a new one: nothing is in flight on it, and
        \* nothing has failed on it
        wire1 == [a \in Machines |-> [b \in Machines |->
                    IF (a = m /\ b \in acc.accepted) \/ (b = m /\ a \in acc.accepted)
                    THEN <<>> ELSE wire0[a][b]]]
        failing1 == [failing EXCEPT ![m] =
                        [i \in DOMAIN failing[m] |->
                            IF i \in acc.opened THEN NoFailure ELSE failing[m][i]]]
    IN  IF acc.panic \/ (t # NoTarget /\ panicked[t])
        THEN /\ panicked' = [panicked EXCEPT ![m] = TRUE]
             /\ pc' = [pc EXCEPT ![m] = "idle"]
             /\ dial' = [dial1 EXCEPT ![m] = NoDial]
             /\ listener' = listener1
             /\ network_connections' = [network_connections EXCEPT ![m] = acc.conns]
             /\ wire' = wire1
             /\ failing' = failing1
             /\ UNCHANGED <<inboxes, received, closed>>
        ELSE IF t # NoTarget
        THEN /\ pc' = [pc EXCEPT ![m] = "dialing"]
             /\ dial' = [dial1 EXCEPT ![m] = [target |-> t, op |-> op, accepted |-> FALSE]]
             /\ listener' = [listener1 EXCEPT
                                ![t] = Append(@, [from |-> m, first |-> HandshakeMessage(m, t)])]
             /\ network_connections' = [network_connections EXCEPT ![m] = acc.conns]
             /\ wire' = wire1
             /\ failing' = failing1
             /\ UNCHANGED <<inboxes, received, panicked, closed>>
        ELSE /\ pc' = [pc EXCEPT ![m] = "idle"]
             /\ dial' = [dial1 EXCEPT ![m] = NoDial]
             /\ listener' = listener1
             /\ IF op = "send_and_receive"
                THEN \E S \in {SendReceiveLoop(m, 0,
                                  [conns |-> acc.conns, wire |-> wire1, inbox |-> inboxes[m],
                                   received |-> received[m], panic |-> FALSE,
                                   failing |-> failing1, closed |-> closed],
                                  arrived)} :
                         /\ network_connections' = [network_connections EXCEPT ![m] = S.conns]
                         /\ wire' = S.wire
                         /\ inboxes' = [inboxes EXCEPT ![m] = S.inbox]
                         /\ received' = [received EXCEPT ![m] = S.received]
                         /\ panicked' = [panicked EXCEPT ![m] = S.panic]
                         /\ failing' = S.failing
                         /\ closed' = S.closed
                ELSE /\ network_connections' = [network_connections EXCEPT ![m] = acc.conns]
                     /\ wire' = wire1
                     /\ failing' = failing1
                     /\ UNCHANGED <<inboxes, received, panicked, closed>>

\* connect, with the sockets as they are
ConnectFrom(m, acc, from, op, arrived) == ConnectFromWire(m, acc, from, op, arrived, wire)

\* whether the call blocks in a dial, so that nothing is received in this step
Blocks(m, acc, from) == acc.panic \/ NextDialTarget(m, acc.conns, from) # NoTarget

Zero == [p \in Machines |-> 0]

ArrivedAfter(m, acc, from) ==
    IF Blocks(m, acc, from) THEN {Zero} ELSE ArrivedChoices(m, acc.conns)

\* the accept of connect is about to take the connection of a browser
AcceptsBrowser(m) ==
    /\ WaitsForLarger(m, network_connections[m])
    /\ listener[m] # <<>>
    /\ backend[Head(listener[m]).from] = "browser"

\* listener.accept() and websocket_accept of a browser's connection: the
\* browser's socket becomes Open, and the acceptor blocks in read_message
\* until the browser has sent a binary message
BeginAccept(m, op) ==
    LET stream == Head(listener[m])
        b == stream.from
    IN  /\ pc' = [pc EXCEPT ![m] = "accepting"]
        /\ dial' = [dial EXCEPT ![m] = [target |-> b, op |-> op, accepted |-> FALSE]]
        /\ listener' = [listener EXCEPT ![m] = Tail(@)]
        /\ network_connections' =
              [network_connections EXCEPT ![b][m] =
                  IF @.some THEN [@ EXCEPT !.ready_state = "open"] ELSE @]
        /\ UNCHANGED <<wire, inboxes, received, panicked, failing, closed>>

\* pub fn connect
Connect(m) ==
    /\ Idle(m)
    /\ backend[m] = "server"
    /\ IF AcceptsBrowser(m)
       THEN BeginAccept(m, "connect")
       ELSE LET acc == AcceptOne(m, network_connections[m], listener[m])
            IN  ConnectFrom(m, acc, 0, "connect", Zero)
    /\ UNCHANGED <<network, backend, overflow_checks, n_turns, sent, enqueues, returned, faults>>

\* pub fn send_and_receive
SendAndReceive(m) ==
    /\ Idle(m)
    /\ backend[m] = "server"
    /\ IF AcceptsBrowser(m)
       THEN BeginAccept(m, "send_and_receive")
       ELSE LET acc == AcceptOne(m, network_connections[m], listener[m])
            IN  \E arrived \in ArrivedAfter(m, acc, 0) :
                    ConnectFrom(m, acc, 0, "send_and_receive", arrived)
    /\ UNCHANGED <<network, backend, overflow_checks, n_turns, sent, enqueues, returned, faults>>

\* the first binary message of the browser arrives: its first octet names
\* the slot of the new connection, and connect goes on with its dial loop
AcceptComplete(m) ==
    /\ pc[m] = "accepting" /\ ~panicked[m]
    /\ wire[dial[m].target][m] # <<>>
    /\ LET b == dial[m].target
           data == Head(wire[b][m])
           wire0 == [wire EXCEPT ![b][m] = Tail(@)]
           in_range == data # <<>> /\ data[1] \in DOMAIN network_connections[m]
           acc == [conns |-> IF in_range
                             THEN [network_connections[m] EXCEPT ![data[1]] = NewConnection(b)]
                             ELSE network_connections[m],
                   pending |-> listener[m], accepted |-> {},
                   opened |-> IF in_range THEN {data[1]} ELSE {},
                   panic |-> ~in_range]
       IN  \E arrived \in (IF dial[m].op = "send_and_receive"
                           THEN ArrivedAfter(m, acc, 0) ELSE {Zero}) :
               ConnectFromWire(m, acc, 0, dial[m].op, arrived, wire0)
    /\ UNCHANGED <<network, backend, overflow_checks, n_turns, sent, enqueues, returned, faults>>

\* the client handshake of a blocked dial ends: the dialled machine has
\* accepted; the connection is installed and connect goes on
DialComplete(m) ==
    /\ pc[m] = "dialing" /\ ~panicked[m]
    /\ dial[m].accepted
    /\ LET t == dial[m].target
           acc == [conns |-> [network_connections[m] EXCEPT ![t] = NewConnection(t)],
                   pending |-> listener[m], accepted |-> {}, opened |-> {t},
                   panic |-> FALSE]
       IN  \E arrived \in (IF dial[m].op = "send_and_receive"
                           THEN ArrivedAfter(m, acc, t + 1) ELSE {Zero}) :
               ConnectFrom(m, acc, t + 1, dial[m].op, arrived)
    /\ UNCHANGED <<network, backend, overflow_checks, n_turns, sent, enqueues, returned, faults>>

\* pub fn finish_turn
FinishTurn(m) ==
    /\ Idle(m)
    /\ LET conns == network_connections[m]
           hint == ShouldSleep(n_turns[m], conns, 0, NoHint)
           turns == n_turns[m] + 1
           panics == /\ overflow_checks
                     /\ SubtractionOverflows(SizeOfShortTypeId + SizeOfU32)
                     /\ \E i \in DOMAIN conns : conns[i].some
       IN  /\ n_turns' = [n_turns EXCEPT ![m] = turns]
           /\ IF panics
              THEN /\ panicked' = [panicked EXCEPT ![m] = TRUE]
                   /\ UNCHANGED <<network_connections, sent>>
              ELSE /\ network_connections' =
                         [network_connections EXCEPT ![m] = WriteTurnEnd(conns, turns)]
                   /\ sent' = [sent EXCEPT ![m] =
                         [p \in Machines |->
                             IF \E i \in DOMAIN conns : conns[i].some /\ conns[i].websocket = p
                             THEN Append(sent[m][p], TurnMessage(turns))
                             ELSE sent[m][p]]]
                   /\ UNCHANGED panicked
           /\ returned' = [returned EXCEPT ![m] = hint]
    /\ UNCHANGED <<network, backend, overflow_checks, listener, wire, pc, dial, inboxes,
                   received, enqueues, failing, closed, faults>>

\* the record of one enqueue call: its recipient machine and its message
EnqueueCall(message_type_id, packet) ==
    [to |-> packet.recipient_machine, message |-> PacketMessage(message_type_id, packet)]

\* pub fn enqueue
Enqueue(m, message_type_id, packet) ==
    /\ Idle(m)
    /\ LET conns == network_connections[m]
           total_size == SizeOfShortTypeId + packet.packet_size
           addressed == Recipients(m, conns, packet.recipient_machine)
           recipients == {i \in addressed \cap DOMAIN conns : conns[i].some}
           message == PacketMessage(message_type_id, packet)
           \* an index past the peer table, or a usize overflow in a checked build
           panics == \/ ~(addressed \subseteq DOMAIN conns)
                     \/ (overflow_checks /\ SubtractionOverflows(total_size)
                            /\ recipients # {})
       IN  /\ IF network = 1
              THEN UNCHANGED <<network_connections, sent, panicked>>
              ELSE IF panics
              THEN /\ panicked' = [panicked EXCEPT ![m] = TRUE]
                   /\ UNCHANGED <<network_connections, sent>>
              ELSE /\ network_connections' =
                         [network_connections EXCEPT
                             ![m] = EnqueueAll(m, conns, message_type_id, packet)]
                   /\ sent' = [sent EXCEPT ![m] =
                         [p \in Machines |->
                             IF \E i \in recipients : conns[i].websocket = p
                             THEN Append(sent[m][p], message)
                             ELSE sent[m][p]]]
                   /\ UNCHANGED panicked
    /\ enqueues' = [enqueues EXCEPT ![m] = Append(@, EnqueueCall(message_type_id, packet))]
    /\ UNCHANGED <<network, backend, overflow_checks, n_turns, listener, wire, pc, dial,
                   inboxes, received, returned, failing, closed, faults>>

(***************************************************************************)
(* The browser build: connect, send_and_receive with its catch-up of       *)
(* n_turns, and the message listener.                                      *)
(***************************************************************************)
\* the peers connect opens a WebSocket to: every other machine whose slot is
\* empty
BrowserTargets(m, conns) ==
    {machine_id \in DOMAIN conns : machine_id # m /\ ~conns[machine_id].some}

\* the peer table after the browser's connect
BrowserConnectTable(m, conns) ==
    [i \in DOMAIN conns |->
        IF i \in BrowserTargets(m, conns)
        THEN AnnounceFirst(NewBrowserConnection(i), m)
        ELSE conns[i]]

\* WebSocket::new starts a connection to each target; a server's listener
\* holds it until the server accepts, and nothing has been sent on it
BrowserDials(m, targets, listeners) ==
    [t \in DOMAIN listeners |->
        IF t \in targets /\ backend[t] = "server"
        THEN Append(listeners[t], [from |-> m, first |-> <<>>])
        ELSE listeners[t]]

\* one round of the loop of send_and_receive on slot i, which holds a
\* connection: try_send_pending, then try_receive
BrowserSendReceiveSlot(m, i, S) ==
    LET connection == S.conns[i]
        peer == connection.websocket
        frames == BrowserTrySendPendingFrames(connection)
        flushed == BrowserTrySendPendingAfter(connection)
    IN  CHOOSE S2 \in
            {[S EXCEPT
                !.conns[i] = [flushed EXCEPT
                                !.n_turns = st.n_turns,
                                !.n_turns_since_own_turn = st.n_turns_since_own_turn,
                                !.in_queue = <<>>],
                !.wire[m][peer] = @ \o frames,
                !.inbox = st.inbox,
                !.received[peer] = @ \o st.log,
                !.panic = st.panic] :
              st \in {BrowserTryReceive(flushed.in_queue, 0,
                                        DispatchState(flushed, S.inbox))}} : TRUE

RECURSIVE BrowserSendReceiveLoop(_, _, _)
BrowserSendReceiveLoop(m, i, S) ==
    IF i \notin DOMAIN S.conns \/ S.panic
    THEN S
    ELSE IF ~S.conns[i].some
    THEN BrowserSendReceiveLoop(m, i + 1, S)
    ELSE CHOOSE S3 \in {BrowserSendReceiveLoop(m, i + 1, S2) :
                            S2 \in {BrowserSendReceiveSlot(m, i, S)}} : TRUE

\* how far behind the peers a browser must be to jump to their turn
CatchUpTurns == 1000

\* the largest observed n_turns, an empty slot counting as 0
RECURSIVE MaxObservedTurns(_, _)
MaxObservedTurns(conns, i) ==
    IF i \notin DOMAIN conns THEN 0
    ELSE LET rest == MaxObservedTurns(conns, i + 1)
             observed == IF conns[i].some THEN conns[i].n_turns ELSE 0
         IN  IF observed > rest THEN observed ELSE rest

\* a variant that jumps already at the threshold
CatchUpAtThreshold(own_turns, conns) ==
    LET max_n_turns == IF DOMAIN conns = {} THEN own_turns ELSE MaxObservedTurns(conns, 0)
    IN  IF max_n_turns >= CatchUpTurns + own_turns THEN max_n_turns ELSE own_turns

\* self.n_turns after the last block of send_and_receive
CatchUp(own_turns, conns) ==
    LET max_n_turns == IF DOMAIN conns = {} THEN own_turns ELSE MaxObservedTurns(conns, 0)
    IN  IF max_n_turns > CatchUpTurns + own_turns THEN max_n_turns ELSE own_turns

\* pub fn connect (browser)
BrowserConnect(m) ==
    /\ Idle(m)
    /\ backend[m] = "browser"
    /\ network_connections' =
          [network_connections EXCEPT ![m] = BrowserConnectTable(m, network_connections[m])]
    /\ listener' = BrowserDials(m, BrowserTargets(m, network_connections[m]), listener)
    /\ UNCHANGED <<network, backend, overflow_checks, n_turns, wire, pc, dial, inboxes,
                   panicked, sent, received, enqueues, returned, failing, closed, faults>>

\* pub fn send_and_receive (browser)
BrowserSendAndReceive(m) ==
    /\ Idle(m)
    /\ backend[m] = "browser"
    /\ \E S \in {BrowserSendReceiveLoop(m, 0,
                     [conns |-> BrowserConnectTable(m, network_connections[m]),
                      wire |-> wire, inbox |-> inboxes[m],
                      received |-> received[m], panic |-> FALSE])} :
           /\ network_connections' = [network_connections EXCEPT ![m] = S.conns]
           /\ wire' = S.wire
           /\ inboxes' = [inboxes EXCEPT ![m] = S.inbox]
           /\ received' = [received EXCEPT ![m] = S.received]
           /\ panicked' = [panicked EXCEPT ![m] = S.panic]
           /\ n_turns' = [n_turns EXCEPT ![m] = IF S.panic THEN @ ELSE CatchUp(@, S.conns)]
    /\ listener' = BrowserDials(m, BrowserTargets(m, network_connections[m]), listener)
    /\ UNCHANGED <<network, backend, overflow_checks, pc, dial, sent, enqueues, returned,
                   failing, closed, faults>>

\* the browser delivers the next frame of the socket of slot i to the
\* message listener
OnMessage(m, i) ==
    /\ ~panicked[m]
    /\ backend[m] = "browser"
    /\ network_connections[m][i].some
    /\ LET peer == network_connections[m][i].websocket
       IN  /\ wire[peer][m] # <<>>
           /\ network_connections' =
                 [network_connections EXCEPT
                     ![m][i] = OnMessageFrame(@, Head(wire[peer][m]))]
           /\ wire' = [wire EXCEPT ![peer][m] = Tail(@)]
    /\ UNCHANGED <<network, backend, overflow_checks, n_turns, listener, pc, dial, inboxes,
                   panicked, sent, received, enqueues, returned, failing, closed, faults>>

(***************************************************************************)
(* The transport.  A socket can fail with an error other than would-block  *)
(* (the connection is reset or closed); the owner of the slot meets the    *)
(* error in its next try_send_pending ("send") or in the read_message that *)
(* follows the frames that arrived ("receive").                            *)
(***************************************************************************)
Failures == {"send", "receive"}

TransportFails(m, i, how) ==
    /\ network_connections[m][i].some
    /\ failing[m][i] = NoFailure
    /\ failing' = [failing EXCEPT ![m][i] = how]
    /\ faults' = faults + 1
    /\ UNCHANGED <<network, backend, overflow_checks, n_turns, network_connections, listener,
                   wire, pc, dial, inboxes, panicked, sent, received, enqueues,
                   returned, closed>>

\* frames that are no batch of this code: a length prefix cut short, and a
\* length prefix that announces more octets than the frame holds
MalformedFrames == {<<1, 0>>, U32LE(5) \o <<7>>}

\* a frame that the peer's code did not build reaches the socket of m from
\* p (a peer that does not run this code, or a damaged frame)
MalformedFrame(p, m, frame) ==
    /\ \E i \in Machines :
           network_connections[m][i].some /\ network_connections[m][i].websocket = p
    /\ wire' = [wire EXCEPT ![p][m] = Append(@, frame)]
    /\ faults' = faults + 1
    /\ UNCHANGED <<network, backend, overflow_checks, n_turns, network_connections, listener,
                   pc, dial, inboxes, panicked, sent, received, enqueues, returned,
                   failing, closed>>

(***************************************************************************)
(* Networking::new on every machine of a network of `size` addresses.      *)
(***************************************************************************)
InitMachines(size, kinds, turns) ==
    /\ network = size
    /\ backend = kinds
    /\ n_turns = turns
    /\ network_connections = [m \in 0 .. size - 1 |-> [i \in 0 .. size - 1 |-> NoConnection]]
    /\ listener = [m \in 0 .. size - 1 |-> <<>>]
    /\ wire = [m \in 0 .. size - 1 |-> [p \in 0 .. size - 1 |-> <<>>]]
    /\ pc = [m \in 0 .. size - 1 |-> "idle"]
    /\ dial = [m \in 0 .. size - 1 |-> NoDial]
    /\ inboxes = [m \in 0 .. size - 1 |-> <<>>]
    /\ panicked = [m \in 0 .. size - 1 |-> FALSE]
    /\ sent = [m \in 0 .. size - 1 |-> [p \in 0 .. size - 1 |-> <<>>]]
    /\ received = [m \in 0 .. size - 1 |-> [p \in 0 .. size - 1 |-> <<>>]]
    /\ enqueues = [m \in 0 .. size - 1 |-> <<>>]
    /\ returned = [m \in 0 .. size - 1 |-> NoHint]
    /\ failing = [m \in 0 .. size - 1 |-> [i \in 0 .. size - 1 |-> NoFailure]]
    /\ closed = [m \in 0 .. size - 1 |-> [i \in 0 .. size - 1 |-> NoFailure]]
    /\ faults = 0

\* a network of server machines that have finished no turn
InitNetwork(size) ==
    InitMachines(size, [m \in 0 .. size - 1 |-> "server"], [m \in 0 .. size - 1 |-> 0])

(***************************************************************************)
(* Spec: networks of one and of two machines exchanging packets and turns. *)
(***************************************************************************)
RECURSIVE SumFrom(_, _)
SumFrom(f, m) == IF m \notin DOMAIN f THEN 0 ELSE f[m] + SumFrom(f, m + 1)

\* the sum of a counter over the machines
Total(f) == SumFrom(f, 0)

\* the number of enqueue calls made in the network
Enqueued == Total([m \in Machines |-> Len(enqueues[m])])

NetworkSizes == {1, 2}
TypeIds == {7}
PacketSizes == {8}

\* the packets a caller may pass for the given recipient machines; the
\* content differs from call to call
PacketsTo(recipient_machines) ==
    [recipient_machine : recipient_machines,
     packet_size : PacketSizes,
     fill : {Enqueued + 1}]

\* any packet: for a machine of the network or for the broadcast id
Packets(m) == PacketsTo(Machines \cup {broadcast_machine_id})

\* fewer than `limit` frames of m are unread on each of its sockets
CanFlush(m, limit) ==
    \A i \in Machines :
        network_connections[m][i].some =>
            Len(wire[m][network_connections[m][i].websocket]) < limit

Init ==
    /\ \E size \in NetworkSizes : InitNetwork(size)
    /\ overflow_checks = FALSE

Next ==
    \E m \in Machines :
        \/ Connect(m)
        \/ (CanFlush(m, MaxFramesInFlight) /\ SendAndReceive(m))
        \/ DialComplete(m)
        \/ (Total(n_turns) + Enqueued < MaxAppends /\ FinishTurn(m))
        \/ \E message_type_id \in TypeIds, packet \in PacketsTo(Machines \ {m}) :
               Total(n_turns) + Enqueued < MaxAppends /\ Enqueue(m, message_type_id, packet)

Spec == Init /\ [][Next]_vars

(***************************************************************************)
(* Spec3: a network of three machines (and of one), broadcast packets.     *)
(* connect runs as the first step of every send_and_receive.              *)
(***************************************************************************)
MaxPackets3 == 1
MaxFramesInFlight3 == 1
NetworkSizes3 == {1, 3}

Init3 ==
    /\ \E size \in NetworkSizes3 : InitNetwork(size)
    /\ overflow_checks = FALSE

Next3 ==
    \E m \in Machines :
        \/ (CanFlush(m, MaxFramesInFlight3) /\ SendAndReceive(m))
        \/ DialComplete(m)
        \/ \E message_type_id \in TypeIds, packet \in PacketsTo({broadcast_machine_id}) :
               Enqueued < MaxPackets3 /\ Enqueue(m, message_type_id, packet)

Spec3 == Init3 /\ [][Next3]_vars

(***************************************************************************)
(* SpecSelf: networks of one and of two machines, packets for any machine, *)
(* the caller's own among them, and for the broadcast id.                  *)
(***************************************************************************)
MaxPacketsSelf == 2
MaxFramesInFlightSelf == 1

NextSelf ==
    \E m \in Machines :
        \/ Connect(m)
        \/ (CanFlush(m, MaxFramesInFlightSelf) /\ SendAndReceive(m))
        \/ DialComplete(m)
        \/ \E message_type_id \in TypeIds, packet \in Packets(m) :
               Enqueued < MaxPacketsSelf /\ Enqueue(m, message_type_id, packet)

SpecSelf == Init /\ [][NextSelf]_vars

(***************************************************************************)
(* SpecTurns: two machines and no packets; machine 1 runs ahead of         *)
(* machine 0 by many turns.                                                *)
(***************************************************************************)
\* finish_turn calls of machine 1 in SpecTurns
MaxTurnsAhead == 12
\* finish_turn calls of machine 0 in SpecTurns
MaxTurnsBehind == 0
MaxFramesInFlightTurns == 1

TurnLimit(m) == IF m = 1 THEN MaxTurnsAhead ELSE MaxTurnsBehind

InitTurns ==
    /\ InitNetwork(2)
    /\ overflow_checks = FALSE

NextTurns ==
    \E m \in Machines :
        \/ Connect(m)
        \/ (CanFlush(m, MaxFramesInFlightTurns) /\ SendAndReceive(m))
        \/ DialComplete(m)
        \/ (n_turns[m] < TurnLimit(m) /\ FinishTurn(m))

SpecTurns == InitTurns /\ [][NextTurns]_vars

(***************************************************************************)
(* SpecHint: three machines and no packets; machine 0 runs ahead of its    *)
(* two peers, which advance by different numbers of turns.                 *)
(***************************************************************************)
\* finish_turn calls of machine 0 in SpecHint
MaxTurnsLeader == 4
\* finish_turn calls of machines 1 and 2 together in SpecHint
MaxTurnsFollowers == 1
MaxFramesInFlightHint == 1

InitHint ==
    /\ InitNetwork(3)
    /\ overflow_checks = FALSE

NextHint ==
    \E m \in Machines :
        \/ Connect(m)
        \/ (CanFlush(m, MaxFramesInFlightHint) /\ SendAndReceive(m))
        \/ DialComplete(m)
        \/ /\ IF m = 0 THEN n_turns[0] < MaxTurnsLeader
                       ELSE Total(n_turns) - n_turns[0] < MaxTurnsFollowers
           /\ FinishTurn(m)

SpecHint == InitHint /\ [][NextHint]_vars

(***************************************************************************)
(* SpecBatch: two machines, packets below and above batch_message_bytes,   *)
(* in a build that wraps on usize overflow and in one that panics.         *)
(***************************************************************************)
MaxPacketsBatch == 3
MaxFramesInFlightBatch == 1
PacketSizesBatch == {8, 24}

PacketsBatch(m) ==
    [recipient_machine : Machines \ {m},
     packet_size : PacketSizesBatch,
     fill : {Enqueued + 1}]

InitBatch ==
    /\ InitNetwork(2)
    /\ overflow_checks \in BOOLEAN

NextBatch ==
    \E m \in Machines :
        \/ Connect(m)
        \/ (CanFlush(m, MaxFramesInFlightBatch) /\ SendAndReceive(m))
        \/ DialComplete(m)
        \/ \E message_type_id \in TypeIds, packet \in PacketsBatch(m) :
               Enqueued < MaxPacketsBatch /\ Enqueue(m, message_type_id, packet)

SpecBatch == InitBatch /\ [][NextBatch]_vars

(***************************************************************************)
(* SpecFaults: three machines, turns, and sockets that fail.               *)
(***************************************************************************)
\* finish_turn calls and transport faults of all machines together
MaxEventsFaults == 1

\* every peer of m has read what m wrote: the machines of SpecFaults call
\* send_and_receive in step with their peers
NothingInFlight(m) ==
    \A i \in Machines :
        network_connections[m][i].some =>
            wire[m][network_connections[m][i].websocket] = <<>>

InitFaults ==
    /\ InitNetwork(3)
    /\ overflow_checks = FALSE

NextFaults ==
    \E m \in Machines :
        \/ (NothingInFlight(m) /\ SendAndReceive(m))
        \/ DialComplete(m)
        \/ (Total(n_turns) + faults < MaxEventsFaults /\ FinishTurn(m))
        \/ \E i \in Machines, how \in Failures :
               Total(n_turns) + faults < MaxEventsFaults /\ TransportFails(m, i, how)

SpecFaults == InitFaults /\ [][NextFaults]_vars

(***************************************************************************)
(* SpecReconnect: three machines that also call connect on its own, turns, *)
(* and sockets that fail: a machine that lost a connection dials again.    *)
(***************************************************************************)
MaxEventsReconnect == 2

NextReconnect ==
    \E m \in Machines :
        \/ Connect(m)
        \/ (NothingInFlight(m) /\ SendAndReceive(m))
        \/ DialComplete(m)
        \/ (Total(n_turns) + faults < MaxEventsReconnect /\ FinishTurn(m))
        \/ \E i \in Machines, how \in Failures :
               Total(n_turns) + faults < MaxEventsReconnect /\ TransportFails(m, i, how)

SpecReconnect == InitFaults /\ [][NextReconnect]_vars

(***************************************************************************)
(* SpecMalformed: two machines, turns, and a malformed inbound frame.      *)
(***************************************************************************)
MaxEventsMalformed == 2

InitMalformed ==
    /\ InitNetwork(2)
    /\ overflow_checks = FALSE

NextMalformed ==
    \E m \in Machines :
        \/ (NothingInFlight(m) /\ SendAndReceive(m))
        \/ DialComplete(m)
        \/ (Total(n_turns) + faults < MaxEventsMalformed /\ FinishTurn(m))
        \/ \E p \in Machines, frame \in MalformedFrames :
               Total(n_turns) + faults < MaxEventsMalformed /\ MalformedFrame(p, m, frame)

SpecMalformed == InitMalformed /\ [][NextMalformed]_vars

(***************************************************************************)
(* SpecLive: networks of two and of three machines whose main loops keep   *)
(* calling send_and_receive (and so connect) and finish_turn now and then. *)
(* A machine that is not blocked in a dial calls send_and_receive again,   *)
(* and a dial whose peer has accepted returns: weak fairness of both.      *)
(***************************************************************************)
MaxTurnsLive == 1
NetworkSizesLive == {2, 3}
MachinesLive == {0, 1, 2}

InitLive ==
    /\ \E size \in NetworkSizesLive : InitNetwork(size)
    /\ overflow_checks = FALSE

\* the connect of m has a pending connection to accept or a peer to dial
HasConnectWork(m) ==
    \/ WaitsForLarger(m, network_connections[m]) /\ listener[m] # <<>>
    \/ NextDialTarget(m, network_connections[m], 0) # NoTarget

\* the calls that only add frames to what the peers have not read yet are
\* left out; a call that has connections to establish is never left out
SendAndReceiveLive(m) ==
    /\ m \in Machines
    /\ NothingInFlight(m) \/ HasConnectWork(m)
    /\ SendAndReceive(m)

DialCompleteLive(m) == m \in Machines /\ DialComplete(m)

\* what the main loop of m does next without being asked: m is either in a
\* dial or free to call send_and_receive
MainLoopLive(m) == SendAndReceiveLive(m) \/ DialCompleteLive(m)

NextLive ==
    \E m \in MachinesLive :
        \/ SendAndReceiveLive(m)
        \/ DialCompleteLive(m)
        \/ (m \in Machines /\ Total(n_turns) < MaxTurnsLive /\ FinishTurn(m))

SpecLive ==
    /\ InitLive
    /\ [][NextLive]_vars
    /\ \A m \in MachinesLive : WF_vars(MainLoopLive(m))

(***************************************************************************)
(* SpecBrowser: a server (machine 0) and a browser (machine 1).  The       *)
(* server has finished some turns before the browser arrives.              *)
(***************************************************************************)
\* finish_turn calls of each machine
MaxTurnsBrowser == 2
\* frames of a machine that its peer has not dispatched yet
MaxFramesInFlightBrowser == 1
\* the turns the server has finished when the browser is started
ServerTurnsBrowser == {0, 999}

Kinds == [m \in {0, 1} |-> IF m = 0 THEN "server" ELSE "browser"]

\* the values of n_turns a machine can start SpecBrowser with
TurnStarts(m) == IF backend[m] = "server" THEN ServerTurnsBrowser ELSE {0}

\* m has made fewer than `limit` finish_turn calls since its start
MayFinishTurn(m, limit) ==
    \E start \in TurnStarts(m) : start <= n_turns[m] /\ n_turns[m] < start + limit

InitBrowser ==
    /\ \E turns \in ServerTurnsBrowser :
          InitMachines(2, Kinds, [m \in {0, 1} |-> IF m = 0 THEN turns ELSE 0])
    /\ overflow_checks = FALSE

\* the frames of m that its peer has not dispatched yet: in the socket, or
\* in the in_queue of a browser
Undispatched(m, p) ==
    Len(wire[m][p])
      + (IF backend[p] = "browser" /\ network_connections[p][m].some
         THEN Len(network_connections[p][m].in_queue) ELSE 0)

CanFlushBrowser(m, limit) ==
    \A p \in Machines : network_connections[m][p].some => Undispatched(m, p) < limit

NextBrowser ==
    \E m \in Machines :
        \/ Connect(m)
        \/ (CanFlushBrowser(m, MaxFramesInFlightBrowser) /\ SendAndReceive(m))
        \/ AcceptComplete(m)
        \/ BrowserConnect(m)
        \/ (CanFlushBrowser(m, MaxFramesInFlightBrowser) /\ BrowserSendAndReceive(m))
        \/ \E i \in Machines : OnMessage(m, i)
        \/ (MayFinishTurn(m, MaxTurnsBrowser) /\ FinishTurn(m))

SpecBrowser == InitBrowser /\ [][NextBrowser]_vars

(***************************************************************************)
(* SpecStall: a server (machine 0) that runs ahead of a browser (machine   *)
(* 1) which finishes no turn of its own.                                   *)
(***************************************************************************)
\* finish_turn calls of the server
MaxTurnsStall == 12
\* frames of a machine that its peer has not dispatched yet
MaxFramesInFlightStall == 1

InitStall ==
    /\ InitMachines(2, Kinds, [m \in {0, 1} |-> 0])
    /\ overflow_checks = FALSE

NextStall ==
    \E m \in Machines :
        \/ Connect(m)
        \/ (CanFlushBrowser(m, MaxFramesInFlightStall) /\ SendAndReceive(m))
        \/ AcceptComplete(m)
        \/ BrowserConnect(m)
        \/ (CanFlushBrowser(m, MaxFramesInFlightStall) /\ BrowserSendAndReceive(m))
        \/ \E i \in Machines : OnMessage(m, i)
        \/ (backend[m] = "server" /\ n_turns[m] < MaxTurnsStall /\ FinishTurn(m))

SpecStall == InitStall /\ [][NextStall]_vars

(***************************************************************************)
(* SpecAnnounce: a server (machine 0) and a browser (machine 1); packets   *)
(* and turn ends are appended at any moment, also before the browser's     *)
(* socket is Open.                                                         *)
(***************************************************************************)
\* enqueue and finish_turn calls made in the network
MaxAppendsAnnounce == 3
\* frames of a machine that its peer has not dispatched yet
MaxFramesInFlightAnnounce == 1

InitAnnounce ==
    /\ InitMachines(2, Kinds, [m \in {0, 1} |-> 0])
    /\ overflow_checks = FALSE

NextAnnounce ==
    \E m \in Machines :
        \/ Connect(m)
        \/ (CanFlushBrowser(m, MaxFramesInFlightAnnounce) /\ SendAndReceive(m))
        \/ AcceptComplete(m)
        \/ BrowserConnect(m)
        \/ (CanFlushBrowser(m, MaxFramesInFlightAnnounce) /\ BrowserSendAndReceive(m))
        \/ \E i \in Machines : OnMessage(m, i)
        \/ (Total(n_turns) + Enqueued < MaxAppendsAnnounce /\ FinishTurn(m))
        \/ \E message_type_id \in TypeIds, packet \in PacketsTo(Machines \ {m}) :
               Total(n_turns) + Enqueued < MaxAppendsAnnounce
                   /\ Enqueue(m, message_type_id, packet)

SpecAnnounce == InitAnnounce /\ [][NextAnnounce]_vars

(***************************************************************************)
(* SpecBuffers: two machines that call every public operation, and sockets *)
(* that fail.                                                              *)
(***************************************************************************)
\* enqueue and finish_turn calls and socket failures in the network
MaxEventsBuffers == 2

InitBuffers ==
    /\ InitNetwork(2)
    /\ overflow_checks = FALSE

NextBuffers ==
    \E m \in Machines :
        \/ Connect(m)
        \/ (NothingInFlight(m) /\ SendAndReceive(m))
        \/ DialComplete(m)
        \/ (Total(n_turns) + Enqueued + faults < MaxEventsBuffers /\ FinishTurn(m))
        \/ \E message_type_id \in TypeIds, packet \in PacketsTo(Machines \ {m}) :
               Total(n_turns) + Enqueued + faults < MaxEventsBuffers
                   /\ Enqueue(m, message_type_id, packet)
        \/ \E i \in Machines, how \in Failures :
               Total(n_turns) + Enqueued + faults < MaxEventsBuffers
                   /\ TransportFails(m, i, how)

SpecBuffers == InitBuffers /\ [][NextBuffers]_vars

(***************************************************************************)
(* SpecObserved: machine 0, a server, with machine 1, a server or a        *)
(* browser; turns, sockets that fail, connections made anew, and a server  *)
(* far enough ahead for the browser to catch up.                           *)
(***************************************************************************)
\* turns finished since the start and socket failures, in the network
MaxEventsObserved == 3
\* the turns a server has finished when its peer is started
ServerTurnsObserved == {0, 1000}

KindsObserved == {[m \in {0, 1} |-> "server"], Kinds}

InitObserved ==
    /\ \E kinds \in KindsObserved :
          InitMachines(2, kinds,
                       [m \in {0, 1} |-> IF m = 0 /\ kinds[1] = "browser" THEN 1000 ELSE 0])
    /\ overflow_checks = FALSE

\* the turns of m past 0, or past 1000 for a machine that started there or
\* caught up with one that did
TurnsPastStart(m) ==
    IF n_turns[m] >= CatchUpTurns THEN n_turns[m] - CatchUpTurns ELSE n_turns[m]

EventsObserved == Total([m \in Machines |-> TurnsPastStart(m)]) + faults

\* every frame that m has written was dispatched by its peer
NothingUndispatched(m) ==
    \A p \in Machines : network_connections[m][p].some => Undispatched(m, p) = 0

NextObserved ==
    \E m \in Machines :
        \/ Connect(m)
        \/ (NothingUndispatched(m) /\ SendAndReceive(m))
        \/ DialComplete(m)
        \/ AcceptComplete(m)
        \/ BrowserConnect(m)
        \/ (NothingUndispatched(m) /\ BrowserSendAndReceive(m))
        \/ \E i \in Machines : OnMessage(m, i)
        \/ (EventsObserved < MaxEventsObserved /\ FinishTurn(m))
        \/ \E i \in Machines, how \in Failures :
               /\ backend[m] = "server"
               /\ EventsObserved < MaxEventsObserved
               /\ TransportFails(m, i, how)

SpecObserved == InitObserved /\ [][NextObserved]_vars

(***************************************************************************)
(* Properties of the networking core, C1 to C22, and what they speak of.   *)
(***************************************************************************)
\* the messages of a batch, in offset order, each without its length prefix
RECURSIVE MessagesFrom(_, _)
MessagesFrom(batch, pos) ==
    IF pos + SizeOfU32 > Len(batch)
    THEN <<>>
    ELSE LET message_size == ReadU32(batch, pos)
             start == pos + SizeOfU32
         IN  <<Slice(batch, start, start + message_size)>>
                 \o MessagesFrom(batch, start + message_size)

\* the messages of a sequence of batches, batch after batch
RECURSIVE MessagesOf(_)
MessagesOf(batches) ==
    IF batches = <<>> THEN <<>>
    ELSE MessagesFrom(Head(batches), 0) \o MessagesOf(Tail(batches))

\* the messages m holds for the socket to p and has not written yet
Pending(m, p) ==
    LET slots == {i \in Machines :
                    network_connections[m][i].some /\ network_connections[m][i].websocket = p}
    IN  IF slots = {} THEN <<>>
        ELSE MessagesOf(network_connections[m][CHOOSE i \in slots : TRUE].out_batches)

IsTurnMessage(message) == message[1] = 0 /\ message[2] = 0

\* C1: on every socket, what the receiver has dispatched, then what is in
\* flight, then what the sender still holds, is exactly what enqueue and
\* finish_turn appended for it, in that order: nothing is lost, repeated or
\* reordered between the append and the dispatch.
C1_FifoDelivery ==
    \A i \in Machines : \A j \in Machines :
        sent[i][j] = received[j][i] \o MessagesOf(wire[i][j]) \o Pending(i, j)

\* three messages, a packet among turn markers, have crossed one socket: at
\* least two batches, one of them holding two messages
C1_Witness ==
    \E i \in Machines : \E j \in Machines :
        /\ Len(received[j][i]) >= 3
        /\ \E k \in 1 .. Len(received[j][i]) : IsTurnMessage(received[j][i][k])
        /\ \E k \in 1 .. Len(received[j][i]) : ~IsTurnMessage(received[j][i][k])

C3_StalledPeerNotRead ==
    [][\A m \in Machines : \A i \in Machines :
          (/\ network_connections[m][i].some
           /\ network_connections[m][i].n_turns_since_own_turn >= StallTurns
           /\ n_turns'[m] = n_turns[m])
          => received'[m][network_connections[m][i].websocket]
                = received[m][network_connections[m][i].websocket]]_vars

\* the live peers of m that lag by more than acceptable_turn_distance
Lagging(m) ==
    {i \in Machines :
        /\ network_connections[m][i].some
        /\ network_connections[m][i].n_turns + acceptable_turn_distance < n_turns[m]}

\* the sleep a lagging peer of m calls for, in milliseconds
SleepFor(m, i) ==
    (n_turns[m] - acceptable_turn_distance - network_connections[m][i].n_turns)
        \div turn_sleep_distance_ratio

\* the hint for the slowest peer of m: the largest sleep over the lagging peers
SlowestHint(m) ==
    IF Lagging(m) = {}
    THEN NoHint
    ELSE [some |-> TRUE,
          ms |-> CHOOSE d \in {SleepFor(m, i) : i \in Lagging(m)} :
                    \A i \in Lagging(m) : SleepFor(m, i) <= d]

\* C4: finish_turn returns no hint when no live peer lags by more than
\* acceptable_turn_distance, and otherwise the largest sleep over the
\* lagging peers, computed from n_turns before the increment.
C4_HintOfSlowestPeer ==
    [][\A m \in Machines :
          n_turns'[m] # n_turns[m] => returned'[m] = SlowestHint(m)]_vars

\* the largest message appended for the socket from m to p
LargestAppended(m, p) ==
    IF sent[m][p] = <<>> THEN 0
    ELSE LET sizes == {Len(sent[m][p][k]) : k \in 1 .. Len(sent[m][p])}
         IN  CHOOSE d \in sizes : \A e \in sizes : e <= d

\* C5: an outbound batch is no longer than batch_message_bytes plus the
\* largest message appended for its socket (with that message's length
\* prefix), and no process panics over a message size.
C5_BatchLengthBounded ==
    \A m \in Machines :
        /\ ~panicked[m]
        /\ \A i \in Machines :
              network_connections[m][i].some =>
                  \A k \in 1 .. Len(network_connections[m][i].out_batches) :
                      Len(network_connections[m][i].out_batches[k])
                          <= batch_message_bytes + SizeOfU32
                                + LargestAppended(m, network_connections[m][i].websocket)

\* C6: no frame handed to a socket is empty
C6_NoEmptyFrame ==
    \A i \in Machines : \A j \in Machines :
        \A k \in 1 .. Len(wire[i][j]) : wire[i][j][k] # <<>>

\* the number of times x occurs in the sequence s
Count(x, s) == Cardinality({k \in 1 .. Len(s) : s[k] = x})

\* every message m appended for p has been written and read
Drained(m, p) == wire[m][p] = <<>> /\ Pending(m, p) = <<>>

\* a machine's inbox never holds its own broadcast; a peer's inbox holds it
\* at most once, and exactly once when the socket it was appended for is
\* drained
BroadcastDelivery ==
    \A m \in Machines : \A k \in 1 .. Len(enqueues[m]) :
        enqueues[m][k].to = broadcast_machine_id =>
            /\ Count(enqueues[m][k].message, inboxes[m]) = 0
            /\ \A p \in Machines \ {m} :
                  /\ Count(enqueues[m][k].message, inboxes[p]) <= 1
                  /\ (Count(enqueues[m][k].message, sent[m][p]) = 1 /\ Drained(m, p))
                        => Count(enqueues[m][k].message, inboxes[p]) = 1

\* C7: an enqueue to the broadcast id appends its one message to the
\* outbound stream of every live slot of the caller and changes no other
\* slot; and after every step a machine has not delivered its own
\* broadcast, a peer has delivered it at most once, and exactly once when
\* the socket it was appended for is drained.  (Nothing has been enqueued
\* in an initial state.)
C7_BroadcastFanout ==
    [][/\ BroadcastDelivery'
       /\ \A m \in Machines : enqueues'[m] # enqueues[m] =>
            \A message_type_id \in TypeIds : \A packet \in Packets(m) :
            (packet.recipient_machine = broadcast_machine_id
                /\ Enqueue(m, message_type_id, packet))
            => \A i \in Machines :
                  IF network_connections[m][i].some
                  THEN /\ network_connections'[m][i].some
                       /\ MessagesOf(network_connections'[m][i].out_batches)
                            = MessagesOf(network_connections[m][i].out_batches)
                                \o <<PacketMessage(message_type_id, packet)>>
                  ELSE ~network_connections'[m][i].some]_vars

\* machine 0 of three has broadcast one packet, and machines 1 and 2 have
\* each delivered it
C7_Witness ==
    /\ network = 3
    /\ \E k \in 1 .. Len(enqueues[0]) :
          /\ enqueues[0][k].to = broadcast_machine_id
          /\ Count(enqueues[0][k].message, inboxes[1]) = 1
          /\ Count(enqueues[0][k].message, inboxes[2]) = 1
          /\ Count(enqueues[0][k].message, inboxes[0]) = 0

\* C8: the slot of a machine's own id is empty
C8_SelfSlotEmpty == \A m \in Machines : ~network_connections[m][m].some

\* the accept path has installed a connection: a live slot of a larger id
C8_Witness ==
    \E m \in Machines : \E i \in Machines : i > m /\ network_connections[m][i].some

\* C9: an enqueue addressed to the caller's own id, and any enqueue on a
\* network of one address, changes nothing of the networking state.
C9_SelfEnqueueInert ==
    [][\A m \in Machines : enqueues'[m] # enqueues[m] =>
          \A message_type_id \in TypeIds : \A packet \in Packets(m) :
          ((network = 1 \/ packet.recipient_machine = m)
              /\ Enqueue(m, message_type_id, packet))
          => UNCHANGED <<n_turns, network_connections, listener, wire, pc, dial,
                         inboxes, panicked, sent, received, returned>>]_vars

\* a machine with a live connection has enqueued a packet for itself
C9_Witness ==
    \E m \in Machines :
        /\ \E i \in Machines : network_connections[m][i].some
        /\ \E k \in 1 .. Len(enqueues[m]) : enqueues[m][k].to = m

\* C10 as stated: the local n_turns exceeds the n_turns observed of a
\* connected peer by at most acceptable_turn_distance + 10.
C10_BoundedTurnDistance ==
    \A m \in Machines : \A i \in Machines :
        network_connections[m][i].some =>
            n_turns[m] - network_connections[m][i].n_turns
                <= acceptable_turn_distance + StallTurns

\* C10, amended: finish_turn always advances n_turns by one, and it returns
\* a sleep hint exactly when some live peer's observed n_turns plus
\* acceptable_turn_distance is below the n_turns before the increment; the
\* distance itself is not bounded by the call.
C10_HintWithoutBound ==
    [][\A m \in Machines :
          n_turns'[m] # n_turns[m] =>
              /\ n_turns'[m] = n_turns[m] + 1
              /\ returned'[m].some <=> (Lagging(m) # {})]_vars

\* a finish_turn has returned a hint and the machine is further ahead of
\* the peer than acceptable_turn_distance + 10
C10_Witness ==
    \E m \in Machines : \E i \in Machines :
        /\ network_connections[m][i].some
        /\ returned[m].some
        /\ n_turns[m] - network_connections[m][i].n_turns
              > acceptable_turn_distance + StallTurns

\* slot i of machine m goes from empty to live in the step
Opens(m, i) == ~network_connections[m][i].some /\ network_connections'[m][i].some

\* the step ends the dial of m to machine i
OpensByDial(m, i) == pc[m] = "dialing" /\ dial[m].target = i /\ dial[m].accepted

\* the step accepts the pending inbound connection of machine i
OpensByAccept(m, i) ==
    /\ listener[m] # <<>>
    /\ Head(listener[m]).from = i
    /\ Len(listener'[m]) < Len(listener[m])

\* C11, as stated: a machine only dials peers with a larger id and only
\* accepts peers with a smaller id; the connection of i < j is opened by i
\* dialing j.
C11_LowerDialsHigher ==
    [][\A m \in Machines :
          /\ pc'[m] = "dialing" => dial'[m].target > m
          /\ \A i \in Machines :
                Opens(m, i) =>
                    IF i > m THEN OpensByDial(m, i) ELSE OpensByAccept(m, i)]_vars

\* C11, amended: a machine only dials peers with a smaller id and only
\* accepts peers with a larger id; the connection of i < j is opened by the
\* higher-id machine j dialing i, and i obtains it by accepting.
C11_HigherDialsLower ==
    [][\A m \in Machines :
          /\ pc'[m] = "dialing" => dial'[m].target < m
          /\ \A i \in Machines :
                Opens(m, i) =>
                    IF i < m THEN OpensByDial(m, i) ELSE OpensByAccept(m, i)]_vars

\* a pair of machines holds its connection on both sides
C11_Witness ==
    \E m \in Machines : \E i \in Machines :
        /\ i < m
        /\ network_connections[m][i].some /\ network_connections[m][i].websocket = i
        /\ network_connections[i][m].some /\ network_connections[i][m].websocket = m

\* the step is a call of connect by m, or the rest of one after a dial
ConnectCall(m) == Connect(m) \/ (DialComplete(m) /\ dial[m].op = "connect")

\* C12: connect is idempotent: a call performs at most one accept, dials
\* only peers whose slot is empty, leaves every slot that was live before
\* the call holding the same connection with the same observed turns,
\* turns since the own turn and outbound batches, and changes nothing when
\* every non-self slot is live.
C12_ConnectIdempotent ==
    [][\A m \in Machines :
          (pc'[m] # pc[m] \/ listener' # listener
               \/ network_connections'[m] # network_connections[m]) /\ ConnectCall(m) =>
              /\ Len(listener'[m]) >= Len(listener[m]) - 1
              /\ pc'[m] = "dialing" => ~network_connections[m][dial'[m].target].some
              /\ \A i \in Machines :
                    network_connections[m][i].some =>
                        /\ network_connections'[m][i] = network_connections[m][i]
                        /\ ~OpensByAccept(m, i)
              /\ (\A i \in Machines \ {m} : network_connections[m][i].some) =>
                    UNCHANGED vars]_vars

\* slot i of machine m goes from live to empty in the step
Closes(m, i) == network_connections[m][i].some /\ ~network_connections'[m][i].some

\* m wrote frames to the socket of its slot i in the step
Wrote(m, i) ==
    LET peer == network_connections[m][i].websocket
    IN  Len(wire'[m][peer]) > Len(wire[m][peer])

RECURSIVE RunsPastEnd(_, _)
RunsPastEnd(batch, pos) ==
    IF ~(pos < Len(batch)) THEN FALSE
    ELSE IF pos + SizeOfU32 > Len(batch) THEN TRUE
    ELSE IF pos + SizeOfU32 + ReadU32(batch, pos) > Len(batch) THEN TRUE
    ELSE RunsPastEnd(batch, pos + SizeOfU32 + ReadU32(batch, pos))

\* machine m takes the frame at the head of its socket from p in the step
ReadsHead(m, p) == wire[p][m] # <<>> /\ Len(wire'[p][m]) < Len(wire[p][m])

\* C14: a malformed inbound batch is handled like a closed transport: the
\* machine that reads it empties the sender's slot and keeps running, its
\* other connections intact.
C14_MalformedBatchClosesPeer ==
    [][\A m \in Machines : \A p \in Machines :
          (ReadsHead(m, p) /\ RunsPastEnd(Head(wire[p][m]), 0)) =>
              /\ ~panicked'[m]
              /\ \A i \in Machines :
                    IF network_connections[m][i].some
                          /\ network_connections[m][i].websocket = p
                    THEN ~network_connections'[m][i].some
                    ELSE network_connections'[m][i].some
                            = network_connections[m][i].some]_vars

\* every pair of distinct machines has a live slot for each other
AllConnected ==
    \A m \in Machines : \A i \in Machines \ {m} :
        network_connections[m][i].some /\ network_connections[m][i].websocket = i

\* C16: connection establishment completes.  While every machine keeps
\* calling send_and_receive, every pair of distinct machines eventually
\* holds a live slot for each other on both sides, and from then on; no dial
\* waits for ever.  A dial returns only after the dialled machine accepted,
\* so in a network of two machines both slots are live whenever the
\* connect of the dialing machine has returned.
C16_EstablishmentCompletes ==
    /\ <>[]AllConnected
    /\ [][\A m \in Machines :
             (network = 2 /\ pc[m] = "dialing" /\ pc'[m] = "idle") => AllConnected']_vars

\* three machines, all connected to each other
C16_Witness == network = 3 /\ AllConnected

\* the octets of the outbound batches of a connection, in sending order
RECURSIVE OutboundOctets(_, _)
OutboundOctets(batches, k) ==
    IF k > Len(batches) THEN <<>>
    ELSE batches[k] \o OutboundOctets(batches, k + 1)

\* a turn marker on the wire: length prefix 6, type id 0, the turn number,
\* all little-endian
TurnMarkerOctets(turns) ==
    <<6, 0, 0, 0, 0, 0,
      turns % 256, (turns \div 256) % 256, (turns \div 65536) % 256,
      (turns \div 16777216) % 256>>

\* C17: finish_turn increases n_turns by exactly 1; for every peer with a
\* live connection it appends exactly one turn marker (06 00 00 00, 00 00,
\* the new n_turns as u32) to that peer's outbound stream and sets the
\* peer's turns since the own turn to 0; it appends nothing for an empty
\* slot and changes no peer's observed turns.
C17_FinishTurnWritesMarker ==
    [][\A m \in Machines :
          n_turns'[m] # n_turns[m] =>
              /\ n_turns'[m] = n_turns[m] + 1
              /\ \A i \in Machines :
                    LET before == network_connections[m][i]
                        after == network_connections'[m][i]
                    IN  IF before.some
                        THEN /\ after.some
                             /\ OutboundOctets(after.out_batches, 1)
                                    = OutboundOctets(before.out_batches, 1)
                                        \o TurnMarkerOctets(n_turns'[m])
                             /\ after.n_turns_since_own_turn = 0
                             /\ after.n_turns = before.n_turns
                             /\ after.websocket = before.websocket
                        ELSE ~after.some]_vars

\* a machine that has finished a turn holds exactly the marker of that turn
\* for a peer
C17_Witness ==
    \E m \in Machines : \E i \in Machines :
        /\ network_connections[m][i].some
        /\ n_turns[m] > 0
        /\ OutboundOctets(network_connections[m][i].out_batches, 1)
              = TurnMarkerOctets(n_turns[m])

\* the observed turns of the connected peers of a peer table
ObservedTurns(conns) == {conns[i].n_turns : i \in {k \in DOMAIN conns : conns[k].some}}

\* C15: on the browser backend send_and_receive ends by setting n_turns to
\* the largest observed turns of the connected peers if that is strictly
\* greater than n_turns + 1000, and leaves n_turns unchanged otherwise; on
\* the server backend send_and_receive never changes n_turns (a step that
\* changes it is a finish_turn, which touches no socket).
C15_BrowserCatchUp ==
    [][\A m \in Machines :
          /\ (backend[m] = "browser" /\ BrowserSendAndReceive(m)) =>
                LET observed == ObservedTurns(network_connections'[m])
                    ahead == {t \in observed : t > n_turns[m] + 1000}
                IN  IF ahead # {}
                    THEN /\ n_turns'[m] \in ahead
                         /\ \A t \in observed : t <= n_turns'[m]
                    ELSE n_turns'[m] = n_turns[m]
          /\ (backend[m] = "server" /\ n_turns'[m] # n_turns[m]) =>
                wire' = wire /\ received' = received /\ listener' = listener]_vars

\* a browser has jumped to the turn of its peer
C15_Witness ==
    \E m \in Machines :
        /\ backend[m] = "browser"
        /\ n_turns[m] > 1000
        /\ \E i \in Machines :
              network_connections[m][i].some /\ network_connections[m][i].n_turns = n_turns[m]

\* the turn markers among the messages of a batch
MarkersIn(batch) ==
    LET messages == MessagesFrom(batch, 0)
    IN  Cardinality({k \in 1 .. Len(messages) : IsTurnMessage(messages[k])})

\* the first of the frames k, k + 1, ... whose dispatch reports a stall
\* request when `counter` markers were counted before frame k; 0 if none
RECURSIVE StallingFrame(_, _, _)
StallingFrame(frames, k, counter) ==
    IF k > Len(frames) THEN 0
    ELSE LET n == MarkersIn(frames[k])
         IN  IF n > 0 /\ counter + n >= StallTurns THEN k
             ELSE StallingFrame(frames, k + 1, counter + n)

\* a call of the server build reads no frame of slot i behind one that
\* reports a stall request
ServerStopsOnStall(m, i) ==
    LET connection == network_connections[m][i]
        p == connection.websocket
        k == StallingFrame(wire[p][m], 1, connection.n_turns_since_own_turn)
    IN  (/\ backend[m] = "server"
         /\ connection.some
         /\ network_connections'[m][i].some
         /\ received'[m][p] # received[m][p]
         /\ k # 0)
        => /\ Len(wire[p][m]) - Len(wire'[p][m]) <= k
           /\ received'[m][p] =
                 received[m][p]
                   \o MessagesOf(SubSeq(wire[p][m], 1, Len(wire[p][m]) - Len(wire'[p][m])))

\* a call of the browser build dispatches no frame of slot i behind one that
\* reports a stall request, and keeps the frames behind it queued
BrowserStopsOnStall(m, i) ==
    LET connection == network_connections[m][i]
        p == connection.websocket
        k == StallingFrame(connection.in_queue, 1, connection.n_turns_since_own_turn)
    IN  (/\ backend[m] = "browser"
         /\ connection.some
         /\ BrowserSendAndReceive(m)
         /\ k # 0)
        => /\ received'[m][p] =
                 received[m][p] \o MessagesOf(SubSeq(connection.in_queue, 1, k))
           /\ network_connections'[m][i].in_queue =
                 SubSeq(connection.in_queue, k + 1, Len(connection.in_queue))

\* C18: on both backends, once the dispatch of an inbound batch reports a
\* stall request, that call of try_receive dispatches no further frame of
\* the peer, and the frames behind it stay queued for a later call.
C18_StallStopsReceive ==
    [][\A m \in Machines : \A i \in Machines :
          ServerStopsOnStall(m, i) /\ BrowserStopsOnStall(m, i)]_vars

\* the batches of the server s that the listener of the browser b has queued
\* and b has not dispatched yet
Queued(b, s) ==
    LET slots == {i \in Machines :
                    network_connections[b][i].some /\ network_connections[b][i].websocket = s}
    IN  IF slots = {} THEN <<>>
        ELSE network_connections[b][CHOOSE i \in slots : TRUE].in_queue

\* C19: on a connection of a browser to a server, what the browser has
\* dispatched, then what its listener has queued, then what is in flight,
\* then what the server still holds, is exactly what the server's enqueue and
\* finish_turn calls appended for it, in that order: the frame the listener
\* discards holds none of the server's batches.
C19_NoServerBatchDropped ==
    \A s \in Machines : \A b \in Machines :
        (backend[s] = "server" /\ backend[b] = "browser")
            => sent[s][b] = received[b][s] \o MessagesOf(Queued(b, s))
                                \o MessagesOf(wire[s][b]) \o Pending(s, b)

\* the connection still holds the one-octet batch with the id of machine m
\* at the head of out_batches
AnnouncementPending(connection, m) ==
    /\ connection.some
    /\ connection.out_batches # <<>>
    /\ Head(connection.out_batches) = <<m>>

\* the batches `before` are kept in order in `after`: all but the last as
\* they were, the last one with what was appended to it
KeptInOrder(before, after) ==
    /\ Len(after) >= Len(before)
    /\ \A k \in 1 .. Len(before) :
          IF k < Len(before) THEN after[k] = before[k]
          ELSE /\ Len(after[k]) >= Len(before[k])
               /\ SubSeq(after[k], 1, Len(before[k])) = before[k]

\* the steps of the browser m on its slot i, as far as the id frame goes
AnnouncesFirst(m, i) ==
    LET before == network_connections[m][i]
        after == network_connections'[m][i]
        p == IF before.some THEN before.websocket ELSE after.websocket
    IN  /\ (~before.some /\ after.some) =>
              /\ AnnouncementPending(after, m)
              /\ after.ready_state # "open"
              /\ wire'[m][p] = <<>>
        /\ (before.some /\ before.ready_state # "open") =>
              /\ wire'[m][p] = <<>>
              /\ after.some
              /\ KeptInOrder(before.out_batches, after.out_batches)
        /\ (AnnouncementPending(before, m) /\ wire'[m][p] # wire[m][p]) =>
              /\ before.ready_state = "open"
              /\ wire'[m][p] = before.out_batches
              /\ ~AnnouncementPending(after, m)
        /\ (before.some /\ ~AnnouncementPending(before, m)) =>
              ~AnnouncementPending(after, m)

\* C20: a connection of a browser starts with the one-octet batch of the
\* browser's id at the head of out_batches and with a socket that is not
\* Open; while the socket is not Open no step writes a frame on it, and every
\* pending batch is kept, in order, whatever enqueue and finish_turn append;
\* as long as the id batch is pending nothing has been written on the socket;
\* the step that writes on it first writes the id batch and then the pending
\* batches in order; and the first frame a server reads from an accepted
\* browser is that browser's id.
C20_IdFrameFirst ==
    /\ [](\A m \in Machines : \A i \in Machines :
            LET connection == network_connections[m][i]
            IN  (backend[m] = "browser" /\ connection.some) =>
                  /\ connection.ready_state # "open" => AnnouncementPending(connection, m)
                  /\ AnnouncementPending(connection, m) =>
                        /\ wire[m][connection.websocket] = <<>>
                        /\ received[connection.websocket][m] = <<>>
                        /\ ~network_connections[connection.websocket][m].some)
    /\ [][\A m \in Machines :
            /\ backend[m] = "browser" => \A i \in Machines : AnnouncesFirst(m, i)
            /\ (backend[m] = "server" /\ pc[m] = "accepting" /\ pc'[m] # "accepting") =>
                  /\ Head(wire[dial[m].target][m]) = <<dial[m].target>>
                  /\ network_connections'[m][dial[m].target].some
                  /\ network_connections'[m][dial[m].target].websocket = dial[m].target]_vars

\* a server is about to read the first frames of a browser: the id, then a
\* batch that holds a packet and a turn marker
C20_Witness ==
    \E s \in Machines : \E b \in Machines :
        /\ backend[s] = "server" /\ backend[b] = "browser"
        /\ pc[s] = "accepting"
        /\ Len(wire[b][s]) >= 2
        /\ Head(wire[b][s]) = <<b>>
        /\ LET messages == MessagesFrom(wire[b][s][2], 0)
           IN  /\ \E k \in 1 .. Len(messages) : IsTurnMessage(messages[k])
               /\ \E k \in 1 .. Len(messages) : ~IsTurnMessage(messages[k])

\* C21: in every state between the public operations, and where connect is
\* suspended, every live connection of a peer table holds at least one
\* outbound batch buffer, so the tail that enqueue_in_batch unwraps exists;
\* and a send_and_receive call in which a send fails, which empties the
\* buffer list, leaves the slot of that connection empty.
C21_OutBatchesNonEmpty ==
    /\ [](\A m \in Machines : \A i \in Machines :
            network_connections[m][i].some =>
                network_connections[m][i].out_batches # <<>>)
    /\ [][\A m \in Machines : \A i \in Machines :
            (closed'[m][i] = "send" /\ closed[m][i] # "send") =>
                /\ failing[m][i] = "send"
                /\ network_connections[m][i].some
                /\ ~network_connections'[m][i].some]_vars

\* a send has failed on a connection that held batches to write, its slot
\* was emptied, and the machine has connected to that peer anew
C21_Witness ==
    \E m \in Machines : \E i \in Machines :
        /\ closed[m][i] = "send"
        /\ Len(sent[m][i]) > 0
        /\ \E k \in Machines : k # m /\ network_connections[m][k].some

\* C22: in every state, the n_turns that a machine has observed of a
\* connected peer is at most that peer's own n_turns.
C22_ObservedTurnsBounded ==
    \A a \in Machines : \A i \in Machines :
        network_connections[a][i].some =>
            network_connections[a][i].n_turns <= n_turns[network_connections[a][i].websocket]

\* a browser has caught up with a server more than 1000 turns ahead and has
\* finished a turn since, and the server has observed that turn
C22_Witness ==
    \E s \in Machines : \E b \in Machines :
        /\ backend[s] = "server" /\ backend[b] = "browser"
        /\ network_connections[s][b].some
        /\ network_connections[s][b].websocket = b
        /\ n_turns[b] > CatchUpTurns
        /\ network_connections[s][b].n_turns = n_turns[b]

====
